---- MODULE Spec2Model ----
(***************************************************************************)
(* Market Gap Agent: the run orchestrator (agentOrchestrator.js), the     *)
(* Acontext report store and the four LangGraph nodes                      *)
(* scout -> brain -> validate -> brief, as a state machine.                *)
(*                                                                         *)
(* One step of the model is one continuation of the JavaScript event loop: *)
(* the code that runs from the settlement of one awaited call up to the    *)
(* next await.  The outcome of every awaited external call is chosen       *)
(* nondeterministically (it returns or it throws).                         *)
(***************************************************************************)
EXTENDS Integers, Sequences, FiniteSets, TLC

VARIABLES
  openaiKey,      \* process.env.OPENAI_API_KEY is set
  acontextKey,    \* process.env.ACONTEXT_API_KEY is set
  pc,             \* position of runGraph / of the node being executed
  node,           \* the graph node LangGraph is executing or about to execute
  merged,         \* nodes whose partial update LangGraph has merged
  activeRuns,     \* the run registry: a sequence of RunRecords, index = runId
  events,         \* every event emitted on the run's emitter, in order
  session,        \* the Acontext session of the run ("none" before createSession)
  space,          \* the learning space ("none" = null)
  reportStore,    \* the report stored under the run's session id
  taskState,      \* task blocks of the session
  st,             \* AgentState: the RunState LangGraph threads through the nodes
  loc,            \* the local variables of the node being executed
  streams,        \* the connections of GET /stream/:runId, one per consumer
  bdClient,       \* brightDataService._client: 0 = null, else an index of bdClients
  bdClients,      \* the MCP clients created so far, each with its connection state
  bdRun,          \* per concurrent run: its position in its use of the MCP client
  http,           \* the last POST /start request and the response it got
  srch,           \* one call of searchRedditPainPoints: its position and locals
  vfy,            \* one competitor verification of validateNode, check by check
  called,         \* history: the awaited calls that have settled
  failed          \* history: the awaited calls whose request failed

vars == <<openaiKey, acontextKey, pc, node, merged, activeRuns, events,
          session, space, reportStore, taskState, st, loc, streams,
          bdClient, bdClients, bdRun, http, srch, vfy,
          called, failed>>

\* ---------------------------------------------------------------- bounds
MaxResults == 1       \* most search results one search returns
MaxPain    == 1       \* most pain points one extraction returns
MaxLen     == 4       \* longest niche string of a start request
MaxHits    == 1       \* most entries one search strategy returns, bulk replies apart

\* ------------------------------------------------------ program constants
NumCompetitors == 3   \* COMPETITOR_TARGETS.length
MinSignal      == 10  \* if (allResults.length < 10): the next strategy runs
EnoughHits     == 20  \* if (allResults.length >= 20) break
NumQueries     == 3   \* googleQueries.length
MinFiltered    == 5   \* filtered.length >= 5 ? filtered : rawPosts

Phases == <<"scout", "brain", "validate", "brief">>
PhaseSet == {"scout", "brain", "validate", "brief"}
TaskIds == {"extract_pain_points", "rank_and_select",
            "verify_competitor_gaps", "generate_opportunity_brief"}

\* ----------------------------------------------------------------- events
\* readReport's null: no report stored
NoReport == [exists |-> FALSE, status |-> "none", painPoints |-> FALSE,
             topProblem |-> FALSE, gapAnalysis |-> FALSE, brief |-> FALSE]

\* an event object; report is the payload of report_ready; reg is, for a
\* done event, the status activeRuns holds while the listeners are called
\* with it ("-" for the other events)
Ev(type, phase, tag, n) ==
  [type |-> type, phase |-> phase, tag |-> tag, n |-> n, report |-> NoReport,
   reg |-> "-"]

\* the event objects of one emit(type, data) call
emit(type, phase, tag, n) == <<Ev(type, phase, tag, n)>>

\* emit('done', {...}) while activeRuns holds status reg for the run
emitDone(tag, n, reg) == <<[Ev("done", "", tag, n) EXCEPT !.reg = reg]>>

\* report_ready carrying a copy taken before the final write
emitReportStale(r) ==
  <<[Ev("report_ready", "", "running", 0) EXCEPT !.report = [r EXCEPT !.status = "running"]]>>

\* emit('report_ready', { report: fullReport, ... })
emitReport(r) == <<[Ev("report_ready", "", r.status, 0) EXCEPT !.report = r]>>

\* ---------------------------------------------------- the SSE connections
Consumers == {"c1"}

\* a consumer that has not requested the stream.  recv is what send() has
\* written to the response; at and statusAt record the number of events
\* emitted and the run's status when the handler was attached
NoStream == [conn |-> "idle", attached |-> FALSE, recv |-> <<>>,
             at |-> 0, statusAt |-> "none"]

\* cleanup(): clearInterval, emitter.off('event', handler), res.end()
cleanup(c, how) == [c EXCEPT !.attached = FALSE, !.conn = how]

\* handler(event): send(event), then cleanup() on done or error
handler(c, e) ==
  LET sent == [c EXCEPT !.recv = Append(@, e)]
  IN IF e.type \in {"done", "error"} THEN cleanup(sent, "ended") ELSE sent

\* an emitter that calls the handler with the last event of X only
deliverLast(c, X) ==
  IF c.attached /\ Len(X) > 0 THEN handler(c, X[Len(X)]) ELSE c

\* the emitter calls the attached handler with each event of X in turn
deliver(c, X) ==
  LET D[k \in 0..Len(X)] ==
        IF k = 0 THEN c
        ELSE IF D[k - 1].attached THEN handler(D[k - 1], X[k]) ELSE D[k - 1]
  IN D[Len(X)]

\* emitter.emit('event', e) for each event of X; no listener throws
emitEvents(X) ==
  /\ events' = events \o X
  /\ streams' = [c \in Consumers |-> deliver(streams[c], X)]

\* ------------------------------------------------------------- AgentState

EmptyList == [kind |-> "list", n |-> 0]

\* the defaults of Annotation.Root
AgentState == [searchResults |-> 0, rawPosts |-> 0, painPoints |-> EmptyList,
               topProblem |-> "null", competitorResults |-> <<>>,
               gapAnalysis |-> "null", opportunityBrief |-> "null",
               errors |-> <<>>]

\* last-write-wins reducer used for errors as well
errorsReducerReplace(acc, v) == v

\* reducer of AgentState.errors: (acc, v) => [...acc, ...v]
errorsReducer(acc, v) == acc \o v

\* reducer of every other field: (_, v) => v
lastWrite(old, v) == v

\* the keys of the partial update each node returns
NodeKeys(n) ==
  CASE n = "scout"    -> {"searchResults", "rawPosts", "errors"}
    [] n = "brain"    -> {"painPoints", "topProblem", "errors"}
    [] n = "validate" -> {"competitorResults", "gapAnalysis", "errors"}
    [] n = "brief"    -> {"opportunityBrief", "errors"}

\* LangGraph applies the reducer of each key present in the update
Reduce(s, n, upd) ==
  [k \in DOMAIN s |->
     IF k \in NodeKeys(n)
       THEN IF k = "errors" THEN errorsReducer(s[k], upd[k])
                            ELSE lastWrite(s[k], upd[k])
       ELSE s[k]]

\* edges added in the wrong order: validate before brain
NextNodeSwapped(n) ==
  CASE n = "START"    -> "scout"
    [] n = "scout"    -> "validate"
    [] n = "validate" -> "brain"
    [] n = "brain"    -> "brief"
    [] n = "brief"    -> "END"

\* the edges of the compiled graph
NextNode(n) ==
  CASE n = "START"    -> "scout"
    [] n = "scout"    -> "brain"
    [] n = "brain"    -> "validate"
    [] n = "validate" -> "brief"
    [] n = "brief"    -> "END"

\* the concurrent runs of ClientSpec
BdRuns == {"A", "B"}

\* no POST /start request has been answered
NoRequest == [body |-> [kind |-> "none", niche |-> <<>>], code |-> 0, runId |-> "none"]

\* searchRedditPainPoints has not been called
NoSearch == [pc |-> "idle", all |-> <<>>, out |-> <<>>, s0n |-> 0, bd |-> {},
             q |-> 0, page |-> 0]

\* validateNode has not called verifyAllCompetitors.  results is the local
\* array of verifyAllCompetitors, ret what validateNode got back from it,
\* scraped the competitors the fallback loop scraped
NoVerify == [pc |-> "idle", i |-> 0, manual |-> FALSE, browser |-> FALSE,
             cur |-> [success |-> FALSE, notes |-> "", how |-> "none"],
             results |-> <<>>, ret |-> <<>>, scraped |-> {}]

\* the niche of the run of Spec, StreamSpec: a string the route accepted
SomeNiche == <<"c", "r", "m">>

\* ------------------------------------------------------------------- Init
Init ==
  /\ openaiKey \in BOOLEAN
  /\ acontextKey \in BOOLEAN
  /\ pc = "idle"
  /\ node = "START"
  /\ merged = {}
  /\ activeRuns = <<>>
  /\ events = <<>>
  /\ session = "none"
  /\ space = "none"
  /\ reportStore = NoReport
  /\ taskState = [t \in {} |-> "pending"]
  /\ st = AgentState
  /\ loc = AgentState
  /\ streams = [c \in Consumers |-> NoStream]
  /\ bdClient = 0
  /\ bdClients = <<>>
  /\ bdRun = [r \in BdRuns |-> [pc |-> "idle", held |-> 0, calls |-> 0, last |-> "none"]]
  /\ http = NoRequest
  /\ srch = NoSearch
  /\ vfy = NoVerify
  /\ called = {}
  /\ failed = {}

\* the awaited call c settled with outcome o
settle(c, o) ==
  /\ called' = called \cup {c}
  /\ failed' = IF o = "throw" THEN failed \cup {c} ELSE failed

hist == <<called, failed>>

bdVars == <<bdClient, bdClients, bdRun>>

\* the state of StartSpec, SearchSpec and VerifySpec
aux == <<http, srch, vfy>>

\* what no step of the pipeline of the modelled run changes: the
\* credentials, the MCP client as the concurrent runs of ClientSpec use
\* it, and the state of the other specifications
env == <<openaiKey, acontextKey, bdVars, aux>>

\* ------------------------------------------------- acontextService helpers
\* reportStore.set(sessionId, {...reportStore.get(sessionId), ...reportData})
\* the synchronous first statement of writeReport
reportSet(r, data) ==
  [k \in DOMAIN r |-> IF k \in DOMAIN data THEN data[k] ELSE r[k]]

\* readReport(sessionId): reportStore.get(sessionId) ?? null; the store
\* holds at most the report of the run's session
readReport(sid) ==
  IF sid # "none" /\ sid = session /\ reportStore.exists THEN reportStore ELSE NoReport

\* GET /report/:runId of the only run: 404 when the run is unknown or
\* readReport(run.sessionId) is null, else the report
getReport ==
  IF Len(activeRuns) = 0 THEN [code |-> 404, report |-> NoReport]
  ELSE LET report == readReport(activeRuns[1].sessionId)
       IN IF report.exists THEN [code |-> 200, report |-> report]
                           ELSE [code |-> 404, report |-> NoReport]

\* initTaskBlocks
initTaskBlocks == [t \in TaskIds |-> "pending"]

\* updateTaskBlock(sessionId, taskId, status): no-op without blocks
updateTaskBlock(ts, taskId, status) ==
  IF taskId \in DOMAIN ts THEN [ts EXCEPT ![taskId] = status] ELSE ts

\* an awaited Acontext SDK call (sessions.storeMessage, sessions.flush, ...)
\* either returns or throws
CallOutcomes == {"ok", "throw"}

\* a getClient that does not look at OPENAI_API_KEY
GptOutcomesNoKeyCheck == {"ok", "throw"}

\* callGPT: getClient() throws without OPENAI_API_KEY, else the request
\* returns or throws
GptOutcomes == IF openaiKey THEN {"ok", "throw"} ELSE {"throw"}

\* ------------------------------------------------ startRun / runGraph
\* a catch block that forgets the status assignment
setStatusNoop(runs, s) == runs

\* a status assignment without the spread of the existing record
setStatusNoSpread(runs, s) ==
  [runs EXCEPT ![1].status = s, ![1].niche = <<>>, ![1].startedAt = "undefined"]

\* activeRuns.set(runId, {..., status}) of the only run
setStatus(runs, s) == [runs EXCEPT ![1].status = s]

\* startRun(niche): registers the run and calls runGraph, which runs
\* synchronously up to its first await (createSession)
startRunFor(niche) ==
  /\ pc = "idle"
  /\ activeRuns' = <<[emitter |-> "emitter", status |-> "running", niche |-> niche,
                      startedAt |-> "t0", sessionId |-> "none"]>>
  /\ emitEvents(emit("run_start", "", "", 0))
  /\ pc' = "createSession"
  /\ UNCHANGED <<hist, node, merged, session, space, reportStore, taskState, st, loc>>

\* the start of the run the pipeline specifications follow
startRun ==
  /\ startRunFor(SomeNiche)
  /\ UNCHANGED env

\* catch block that emits done before error
runGraphCatchDoneFirst ==
  /\ emitEvents(emitDone("error", 0, activeRuns[1].status) \o emit("error", "", "", 0))
  /\ activeRuns' = setStatus(activeRuns, "error")
  /\ pc' = "close"

\* the catch block of runGraph followed by the entry of finally: error and
\* done are emitted, then the status is assigned
runGraphCatch ==
  /\ emitEvents(emit("error", "", "", 0) \o emitDone("error", 0, activeRuns[1].status))
  /\ activeRuns' = setStatus(activeRuns, "error")
  /\ pc' = "close"

\* a runGraph that emits run_start only after its first await
createSessionEmitsStart ==
  /\ pc = "createSession"
  /\ \E o \in (IF acontextKey THEN CallOutcomes ELSE {"throw"}) :
       /\ settle("createSession", o)
       /\ IF o = "ok"
         THEN /\ session' = "s1"
              /\ pc' = "createLearningSpace"
              /\ emitEvents(emit("run_start", "", "", 0))
              /\ UNCHANGED activeRuns
         ELSE /\ runGraphCatch
              /\ UNCHANGED session
  /\ UNCHANGED <<env, node, merged, space, reportStore, taskState, st, loc>>

\* createSession settles: getClient() throws without ACONTEXT_API_KEY,
\* sessions.create / storeMessage return or throw
createSession ==
  /\ pc = "createSession"
  /\ \E o \in (IF acontextKey THEN CallOutcomes ELSE {"throw"}) :
       /\ settle("createSession", o)
       /\ IF o = "ok"
         THEN /\ session' = "s1"
              /\ pc' = "createLearningSpace"
              /\ UNCHANGED <<events, streams, activeRuns>>
         ELSE /\ runGraphCatch
              /\ UNCHANGED session
  /\ UNCHANGED <<env, node, merged, space, reportStore, taskState, st, loc>>

\* a createLearningSpace without its try/catch: the failure reaches the
\* catch block of runGraph
createLearningSpaceFatal ==
  /\ pc = "createLearningSpace"
  /\ \E o \in CallOutcomes :
       /\ settle("createLearningSpace", o)
       /\ IF o = "ok"
            THEN /\ space' = "sp1"
                 /\ taskState' = initTaskBlocks
                 /\ emitEvents(emit("session_created", "", space', 0))
                 /\ reportStore' = reportSet(reportStore, [exists |-> TRUE, status |-> "running"])
                 /\ pc' = "initialWrite"
                 /\ UNCHANGED activeRuns
            ELSE /\ runGraphCatch
                 /\ UNCHANGED <<space, taskState, reportStore>>
  /\ UNCHANGED <<env, node, merged, session, st, loc>>

\* createLearningSpace settles (it catches its own failures and returns
\* null); then initTaskBlocks, session_created and the synchronous part of
\* the initial writeReport
createLearningSpace ==
  /\ pc = "createLearningSpace"
  /\ \E o \in CallOutcomes :
       /\ settle("createLearningSpace", o)
       /\ space' = IF o = "ok" THEN "sp1" ELSE "none"
  /\ taskState' = initTaskBlocks
  /\ emitEvents(emit("session_created", "", space', 0))
  /\ reportStore' = reportSet(reportStore, [exists |-> TRUE, status |-> "running"])
  /\ pc' = "initialWrite"
  /\ UNCHANGED <<env, node, merged, activeRuns, session, st, loc>>

\* the storeMessage of the initial writeReport settles; on success
\* graph.invoke seeds the state and schedules the START edge
initialWrite ==
  /\ pc = "initialWrite"
  /\ \E o \in CallOutcomes :
       /\ settle("initialWrite", o)
       /\ IF o = "ok"
         THEN /\ st' = AgentState
              /\ node' = NextNode("START")
              /\ pc' = "enter"
              /\ UNCHANGED <<events, streams, activeRuns>>
         ELSE /\ runGraphCatch
              /\ UNCHANGED <<st, node>>
  /\ UNCHANGED <<env, merged, session, space, reportStore, taskState, loc>>

\* LangGraph merges the partial update the node returned and follows the
\* node's outgoing edge
graphMerge ==
  /\ pc = "merge"
  /\ st' = Reduce(st, node, loc)
  /\ merged' = merged \cup {node}
  /\ node' = NextNode(node)
  /\ pc' = IF NextNode(node) = "END" THEN "finish" ELSE "enter"
  /\ UNCHANGED <<hist, env, activeRuns, events, streams, session, space, reportStore, taskState, loc>>

\* status that ignores the accumulated errors
finalStatusAlwaysComplete(errors) == "complete"

\* final status of a run whose graph completed
finalStatus(errors) == IF Len(errors) # 0 THEN "complete_with_warnings" ELSE "complete"

\* graph.invoke resolved: the status is assigned, then done is emitted
finish ==
  /\ pc = "finish"
  /\ activeRuns' = [activeRuns EXCEPT ![1].status = finalStatus(st.errors),
                                      ![1].sessionId = session]
  /\ emitEvents(emitDone("", Len(st.errors), activeRuns'[1].status))
  /\ pc' = "close"
  /\ UNCHANGED <<hist, env, node, merged, session, space, reportStore, taskState, st, loc>>

\* finally: closeBrightData().catch(() => {}) settles either way
closeBrightData ==
  /\ pc = "close"
  /\ pc' = "ended"
  /\ UNCHANGED <<hist, env, node, merged, activeRuns, events, streams, session, space,
                 reportStore, taskState, st, loc>>

\* ------------------------------------------------------------- node helpers
\* a catch block without the errors.push
pushErrorDropped(l, phase, message) == l

\* errors.push({ phase, message: err.message })
pushError(l, phase, message) ==
  [l EXCEPT !.errors = Append(@, [phase |-> phase, message |-> message])]

Min(a, b) == IF a < b THEN a ELSE b

MaxUrls == 15         \* scrapeRedditPosts(searchResults, 15)

\* what cleanAndFilterPosts followed by
\* rawPosts = filtered.length >= 5 ? filtered : rawPosts can leave: the
\* posts as they were (the call failed, or fewer than 5 were kept) or a
\* kept subset of at least 5
cleanAndFilterPosts(raw) ==
  {raw} \cup (IF openaiKey THEN {f \in 0..raw : f >= MinFiltered} ELSE {})

\* ------------------------------------------------------------ scoutNode
scoutEnter ==
  /\ pc = "enter" /\ node = "scout"
  /\ emitEvents(emit("phase_start", "scout", "", 0))
  /\ loc' = AgentState
  /\ pc' = "scout_search"
  /\ UNCHANGED <<hist, env, node, merged, activeRuns, session, space, reportStore, taskState, st>>

\* searchRedditPainPoints catches every strategy's failure and returns the
\* de-duplicated results, possibly none
scoutSearch ==
  /\ pc = "scout_search"
  /\ settle("scout.searchRedditPainPoints", "ok")
  /\ \E n \in 0..MaxResults :
       /\ loc' = [loc EXCEPT !.searchResults = n]
       /\ emitEvents(emit("search_complete", "", "", n))
  /\ pc' = "scout_scrape"
  /\ UNCHANGED <<env, node, merged, activeRuns, session, space, reportStore, taskState, st>>

\* scrapeRedditPosts catches per post and returns the posts it could enrich
scoutScrape ==
  /\ pc = "scout_scrape"
  /\ settle("scout.scrapeRedditPosts", "ok")
  /\ \E m \in 0..Min(loc.searchResults, MaxUrls) :
       /\ loc' = [loc EXCEPT !.rawPosts = m]
       /\ emitEvents(emit("scrape_complete", "", "", m))
  /\ pc' = "scout_filter"
  /\ UNCHANGED <<env, node, merged, activeRuns, session, space, reportStore, taskState, st>>

scoutFilter ==
  /\ pc = "scout_filter"
  /\ settle("scout.cleanAndFilterPosts", "ok")
  /\ \E f \in cleanAndFilterPosts(loc.rawPosts) : loc' = [loc EXCEPT !.rawPosts = f]
  /\ pc' = "scout_store"
  /\ UNCHANGED <<env, node, merged, activeRuns, events, streams, session, space, reportStore,
                 taskState, st>>

\* storeMessage settles; the catch block and the return of scoutNode
scoutStore ==
  /\ pc = "scout_store"
  /\ \E o \in CallOutcomes :
       /\ settle("scout.storeMessage", o)
       /\ IF o = "ok"
         THEN /\ loc' = loc
              /\ emitEvents(emit("phase_complete", "scout", "", 0))
         ELSE /\ loc' = [pushError(loc, "scout", "storeMessage") EXCEPT
                           !.rawPosts = IF loc.rawPosts = 0 /\ loc.searchResults > 0
                                          THEN loc.searchResults ELSE @]
              /\ emitEvents(emit("phase_warning", "scout", "", 0)
                                  \o emit("phase_complete", "scout", "", 0))
  /\ pc' = "merge"
  /\ UNCHANGED <<env, node, merged, activeRuns, session, space, reportStore, taskState, st>>

\* ------------------------------------------------------------ brainNode
\* the catch block of brainNode and its return
brainCatch(l, ts, message) ==
  /\ loc' = pushError(l, "brain", message)
  /\ taskState' = updateTaskBlock(updateTaskBlock(ts, "extract_pain_points", "error"),
                                  "rank_and_select", "error")
  /\ emitEvents(emit("phase_warning", "brain", "", 0)
                      \o emit("phase_complete", "brain", "", 0))
  /\ pc' = "merge"

brainEnter ==
  /\ pc = "enter" /\ node = "brain"
  /\ loc' = AgentState
  /\ taskState' = updateTaskBlock(taskState, "extract_pain_points", "running")
  /\ emitEvents(emit("phase_start", "brain", "", 0)
                      \o emit("task_update", "", "extract_pain_points:running", 0))
  /\ pc' = "brain_extract"
  /\ UNCHANGED <<hist, env, node, merged, activeRuns, session, space, reportStore, st>>

\* what extractPainPoints returns when callGPT returns: the pain_points
\* array, [] when nothing parses, or (extractJson fallback) the parsed
\* object that is not an array
extractPainPoints ==
  [kind : {"list"}, n : 0..MaxPain] \cup {[kind |-> "obj", n |-> 0]}

brainExtract ==
  /\ pc = "brain_extract"
  /\ \E o \in GptOutcomes :
       /\ settle("brain.extractPainPoints", o)
       /\ IF o = "throw"
         THEN /\ brainCatch(loc, taskState, "extractPainPoints")
              /\ UNCHANGED reportStore
         ELSE \E pp \in extractPainPoints :
                IF pp.kind = "list"
                  THEN /\ loc' = [loc EXCEPT !.painPoints = pp]
                       /\ taskState' = updateTaskBlock(taskState, "extract_pain_points", "complete")
                       /\ emitEvents(emit("task_update", "", "extract_pain_points:complete", 0)
                            \o emit("pain_points_extracted", "", "", pp.n))
                       /\ pc' = "brain_store1"
                       /\ UNCHANGED reportStore
                  ELSE \* painPoints.slice is not a function: thrown while the
                       \* payload of pain_points_extracted is built
                       /\ loc' = pushError([loc EXCEPT !.painPoints = pp], "brain", "TypeError")
                       /\ taskState' = updateTaskBlock(updateTaskBlock(taskState,
                                          "extract_pain_points", "error"),
                                          "rank_and_select", "error")
                       /\ emitEvents(emit("task_update", "", "extract_pain_points:complete", 0)
                            \o emit("phase_warning", "brain", "", 0)
                            \o emit("phase_complete", "brain", "", 0))
                       /\ pc' = "merge"
                       /\ UNCHANGED reportStore
  /\ UNCHANGED <<env, node, merged, activeRuns, session, space, st>>

\* storeMessage('[BRAIN] Extracted ...') settles; on success writeReport
\* updates the store and awaits its own storeMessage
brainStore1 ==
  /\ pc = "brain_store1"
  /\ \E o \in CallOutcomes :
       /\ settle("brain.storeMessage1", o)
       /\ IF o = "ok"
         THEN /\ reportStore' = reportSet(reportStore, [painPoints |-> TRUE])
              /\ pc' = "brain_write1"
              /\ UNCHANGED <<loc, taskState, events, streams>>
         ELSE /\ brainCatch(loc, taskState, "storeMessage")
              /\ UNCHANGED reportStore
  /\ UNCHANGED <<env, node, merged, activeRuns, session, space, st>>

brainWrite1 ==
  /\ pc = "brain_write1"
  /\ \E o \in CallOutcomes :
       /\ settle("brain.writeReport1", o)
       /\ IF o = "ok"
         THEN /\ taskState' = updateTaskBlock(taskState, "rank_and_select", "running")
              /\ emitEvents(emit("task_update", "", "rank_and_select:running", 0))
              /\ pc' = "brain_rank"
              /\ UNCHANGED loc
         ELSE brainCatch(loc, taskState, "writeReport")
  /\ UNCHANGED <<env, node, merged, activeRuns, session, space, reportStore, st>>

\* rankAndSelectProblem returns the parsed ranking or null
rankAndSelectProblem == {"tp", "null"}

brainRank ==
  /\ pc = "brain_rank"
  /\ \E o \in GptOutcomes :
       /\ settle("brain.rankAndSelectProblem", o)
       /\ IF o = "throw"
         THEN brainCatch(loc, taskState, "rankAndSelectProblem")
         ELSE \E tp \in rankAndSelectProblem :
                /\ loc' = [loc EXCEPT !.topProblem = tp]
                /\ taskState' = updateTaskBlock(taskState, "rank_and_select", "complete")
                /\ emitEvents(emit("task_update", "", "rank_and_select:complete", 0)
                     \o emit("top_problem_selected", "", tp, 0))
                /\ pc' = "brain_store2"
  /\ UNCHANGED <<env, node, merged, activeRuns, session, space, reportStore, st>>

brainStore2 ==
  /\ pc = "brain_store2"
  /\ \E o \in CallOutcomes :
       /\ settle("brain.storeMessage2", o)
       /\ IF o = "ok"
         THEN /\ reportStore' = reportSet(reportStore, [topProblem |-> TRUE])
              /\ pc' = "brain_write2"
              /\ UNCHANGED <<loc, taskState, events, streams>>
         ELSE /\ brainCatch(loc, taskState, "storeMessage")
              /\ UNCHANGED reportStore
  /\ UNCHANGED <<env, node, merged, activeRuns, session, space, st>>

brainWrite2 ==
  /\ pc = "brain_write2"
  /\ \E o \in CallOutcomes :
       /\ settle("brain.writeReport2", o)
       /\ IF o = "ok"
         THEN /\ emitEvents(emit("phase_complete", "brain", "", 0))
              /\ pc' = "merge"
              /\ UNCHANGED <<loc, taskState>>
         ELSE brainCatch(loc, taskState, "writeReport")
  /\ UNCHANGED <<env, node, merged, activeRuns, session, space, reportStore, st>>

\* --------------------------------------------------------- validateNode
\* the catch block of validateNode and its return
validateCatch(l, message, pre) ==
  /\ loc' = [pushError(l, "validate", message) EXCEPT !.gapAnalysis = "failed"]
  /\ taskState' = updateTaskBlock(taskState, "verify_competitor_gaps", "error")
  /\ emitEvents(pre
                      \o emit("phase_warning", "validate", "", 0)
                      \o emit("phase_complete", "validate", "", 0))
  /\ pc' = "merge"

validateEnter ==
  /\ pc = "enter" /\ node = "validate"
  /\ loc' = AgentState
  /\ taskState' = updateTaskBlock(taskState, "verify_competitor_gaps", "running")
  /\ emitEvents(emit("phase_start", "validate", "", 0)
                      \o emit("task_update", "", "verify_competitor_gaps:running", 0))
  /\ pc' = "validate_verify"
  /\ UNCHANGED <<hist, env, node, merged, activeRuns, session, space, reportStore, st>>

\* how one checkCompetitorGap ends: it returns its result (a failed browser
\* check is caught inside and still returns a result), or browser.close()
\* throws in the finally block
CheckOutcomes == {"returns", "closeThrow"}

\* the result object checkCompetitorGap returns: notes are set on the
\* success path and in the catch block alike.  result.success is not
\* tracked: validateNode reads it only in if (!result.success &&
\* !result.notes), which is false for every result with notes
checkResult(i) == [name |-> i, notes |-> TRUE]

\* the browser_action event every check emits first; the later ones
\* (navigating, checked, screenshot, error) depend on how the check went
checkEvents(i) == emit("browser_action", "", "starting", i)

\* one iteration of verifyAllCompetitors; after the last one the results
\* are assigned to competitorResults, the fallback loop finds every result
\* with notes and analyseCompetitorData is called
validateCheck ==
  /\ pc = "validate_verify"
  /\ LET i == Len(loc.competitorResults) + 1 IN
     \E o \in CheckOutcomes :
       /\ settle("validate.verifyAllCompetitors", IF o = "closeThrow" THEN "throw" ELSE "ok")
       /\ IF o = "closeThrow"
         THEN validateCatch([loc EXCEPT !.competitorResults = <<>>], "browser.close",
                            checkEvents(i))
         ELSE /\ loc' = [loc EXCEPT !.competitorResults = Append(@, checkResult(i))]
              /\ emitEvents(checkEvents(i))
              /\ pc' = IF i = NumCompetitors THEN "validate_analyse" ELSE "validate_verify"
              /\ UNCHANGED taskState
  /\ UNCHANGED <<env, node, merged, activeRuns, session, space, reportStore, st>>

\* analyseCompetitorData returns the parsed verdict or, when nothing
\* parses, its own low-confidence verdict
analyseCompetitorData == {"llm", "inconclusive"}

validateAnalyse ==
  /\ pc = "validate_analyse"
  /\ \E o \in GptOutcomes :
       /\ settle("validate.analyseCompetitorData", o)
       /\ IF o = "throw"
         THEN validateCatch(loc, "analyseCompetitorData", <<>>)
         ELSE \E g \in analyseCompetitorData :
                /\ loc' = [loc EXCEPT !.gapAnalysis = g]
                /\ taskState' = updateTaskBlock(taskState, "verify_competitor_gaps", "complete")
                /\ emitEvents(emit("task_update", "", "verify_competitor_gaps:complete", 0)
                     \o emit("gap_analysis_complete", "", g, 0))
                /\ pc' = "validate_store"
  /\ UNCHANGED <<env, node, merged, activeRuns, session, space, reportStore, st>>

validateStore ==
  /\ pc = "validate_store"
  /\ \E o \in CallOutcomes :
       /\ settle("validate.storeMessage", o)
       /\ IF o = "ok"
         THEN /\ reportStore' = reportSet(reportStore, [gapAnalysis |-> TRUE])
              /\ pc' = "validate_write"
              /\ UNCHANGED <<loc, taskState, events, streams>>
         ELSE /\ validateCatch(loc, "storeMessage", <<>>)
              /\ UNCHANGED reportStore
  /\ UNCHANGED <<env, node, merged, activeRuns, session, space, st>>

validateWrite ==
  /\ pc = "validate_write"
  /\ \E o \in CallOutcomes :
       /\ settle("validate.writeReport", o)
       /\ IF o = "ok"
         THEN /\ emitEvents(emit("phase_complete", "validate", "", 0))
              /\ pc' = "merge"
              /\ UNCHANGED <<loc, taskState>>
         ELSE validateCatch(loc, "writeReport", <<>>)
  /\ UNCHANGED <<env, node, merged, activeRuns, session, space, reportStore, st>>

\* ------------------------------------------------------------ briefNode
\* the catch block of briefNode and its return
briefCatch(l, message) ==
  /\ loc' = pushError(l, "brief", message)
  /\ taskState' = updateTaskBlock(taskState, "generate_opportunity_brief", "error")
  /\ emitEvents(emit("phase_warning", "brief", "", 0))
  /\ pc' = "merge"

briefEnter ==
  /\ pc = "enter" /\ node = "brief"
  /\ loc' = AgentState
  /\ taskState' = updateTaskBlock(taskState, "generate_opportunity_brief", "running")
  /\ emitEvents(emit("phase_start", "brief", "", 0)
                      \o emit("task_update", "", "generate_opportunity_brief:running", 0))
  /\ pc' = "brief_generate"
  /\ UNCHANGED <<hist, env, node, merged, activeRuns, session, space, reportStore, st>>

\* generateOpportunityBrief returns the parsed brief or, without a
\* headline, its degraded brief (validation_confidence low)
generateOpportunityBrief == {"full", "degraded"}

\* painPoints.slice(0, 5) throws when the state holds a non-array
briefGenerate ==
  /\ pc = "brief_generate"
  /\ IF st.painPoints.kind # "list"
       THEN /\ briefCatch(loc, "TypeError")
            /\ settle("brief.generateOpportunityBrief", "throw")
       ELSE \E o \in GptOutcomes :
              /\ settle("brief.generateOpportunityBrief", o)
              /\ IF o = "throw"
                THEN briefCatch(loc, "generateOpportunityBrief")
                ELSE \E b \in generateOpportunityBrief :
                       /\ loc' = [loc EXCEPT !.opportunityBrief = b]
                       /\ taskState' = updateTaskBlock(taskState,
                                          "generate_opportunity_brief", "complete")
                       /\ emitEvents(emit("task_update", "", "generate_opportunity_brief:complete", 0))
                       /\ pc' = "brief_flush"
  /\ UNCHANGED <<env, node, merged, activeRuns, session, space, reportStore, st>>

\* flushAndSummarise settles; on success the final writeReport updates the
\* store (status 'complete') and awaits its storeMessage
briefFlush ==
  /\ pc = "brief_flush"
  /\ \E o \in CallOutcomes :
       /\ settle("brief.flushAndSummarise", o)
       /\ IF o = "ok"
         THEN /\ reportStore' = reportSet(reportStore, [brief |-> TRUE, status |-> "complete"])
              /\ pc' = "brief_write"
              /\ UNCHANGED <<loc, taskState, events, streams>>
         ELSE /\ briefCatch(loc, "flushAndSummarise")
              /\ UNCHANGED reportStore
  /\ UNCHANGED <<env, node, merged, activeRuns, session, space, st>>

briefWrite ==
  /\ pc = "brief_write"
  /\ \E o \in CallOutcomes :
       /\ settle("brief.writeReport", o)
       /\ IF o = "ok"
         THEN /\ pc' = "brief_store"
              /\ UNCHANGED <<loc, taskState, events, streams>>
         ELSE briefCatch(loc, "writeReport")
  /\ UNCHANGED <<env, node, merged, activeRuns, session, space, reportStore, st>>

\* a briefNode that emits report_ready before and after its storeMessage
briefStoreTwice ==
  /\ pc = "brief_store"
  /\ \E o \in CallOutcomes :
       /\ settle("brief.storeMessage", o)
       /\ IF o = "ok"
         THEN /\ emitEvents(emitReport(readReport(session)) \o emitReport(readReport(session)))
              /\ pc' = "merge"
              /\ UNCHANGED <<loc, taskState>>
         ELSE briefCatch(loc, "storeMessage")
  /\ UNCHANGED <<env, node, merged, activeRuns, session, space, reportStore, st>>

\* storeMessage('[BRIEF] ...') settles; on success readReport and
\* report_ready; briefNode returns without a phase_complete
briefStore ==
  /\ pc = "brief_store"
  /\ \E o \in CallOutcomes :
       /\ settle("brief.storeMessage", o)
       /\ IF o = "ok"
         THEN /\ emitEvents(emitReport(readReport(session)))
              /\ pc' = "merge"
              /\ UNCHANGED <<loc, taskState>>
         ELSE briefCatch(loc, "storeMessage")
  /\ UNCHANGED <<env, node, merged, activeRuns, session, space, reportStore, st>>

\* ------------------------------------------------------------------ Next
Next ==
  \/ startRun
  \/ createSession
  \/ createLearningSpace
  \/ initialWrite
  \/ scoutEnter
  \/ scoutSearch
  \/ scoutScrape
  \/ scoutFilter
  \/ scoutStore
  \/ brainEnter
  \/ brainExtract
  \/ brainStore1
  \/ brainWrite1
  \/ brainRank
  \/ brainStore2
  \/ brainWrite2
  \/ validateEnter
  \/ validateCheck
  \/ validateAnalyse
  \/ validateStore
  \/ validateWrite
  \/ briefEnter
  \/ briefGenerate
  \/ briefFlush
  \/ briefWrite
  \/ briefStore
  \/ graphMerge
  \/ finish
  \/ closeBrightData

Spec == Init /\ [][Next]_vars

\* every awaited call settles and the event loop runs its continuation
FairSpec == Spec /\ WF_vars(Next)

\* ------------------------------------------------- GET /stream/:runId
\* everything but the connections
runVars == <<openaiKey, acontextKey, pc, node, merged, activeRuns, events, session,
             space, reportStore, taskState, st, loc, bdVars, aux, called, failed>>

\* the branch for a run that already completed: the stored report, if
\* any, then done, then cleanup()
sendFinished(c, run) ==
  LET report == readReport(run.sessionId)
      r1 == IF report.exists THEN [c EXCEPT !.recv = @ \o emitReport(report)] ELSE c
  IN cleanup([r1 EXCEPT !.recv = @ \o emit("done", "", "", 0)], "ended")

\* GET /stream/:runId of a registered run: the handler is attached, and a
\* run whose status is complete or error is answered at once
streamConnect(c) ==
  /\ streams[c].conn = "idle"
  /\ Len(activeRuns) = 1
  /\ LET run == activeRuns[1]
         on == [NoStream EXCEPT !.conn = "open", !.attached = TRUE,
                                !.at = Len(events), !.statusAt = run.status]
     IN streams' = [streams EXCEPT ![c] =
                      IF run.status = "complete" \/ run.status = "error"
                        THEN sendFinished(on, run) ELSE on]
  /\ UNCHANGED runVars

\* a close handler that also ends the run
streamCloseCancels(c) ==
  /\ streams[c].conn = "open"
  /\ streams' = [streams EXCEPT ![c] = cleanup(@, "closed")]
  /\ pc' = "ended"
  /\ UNCHANGED <<hist, env, node, merged, activeRuns, events, session, space,
                 reportStore, taskState, st, loc>>

\* req.on('close', cleanup): the consumer closes its connection
streamClose(c) ==
  /\ streams[c].conn = "open"
  /\ streams' = [streams EXCEPT ![c] = cleanup(@, "closed")]
  /\ UNCHANGED runVars

\* the runs considered with consumers: with both credentials present no
\* awaited call fails and the extraction reply is a list; with a
\* credential missing every failure can happen
Calm ==
  (openaiKey /\ acontextKey) => (failed' = failed /\ loc'.painPoints.kind = "list")

StreamNext ==
  \/ Next /\ Calm
  \/ \E c \in Consumers : streamConnect(c)
  \/ \E c \in Consumers : streamClose(c)

StreamSpec == Init /\ [][StreamNext]_vars

\* ------------------------------------------------------- POST /start
\* the characters of the niche strings tried
Chars == {" ", "a"}

\* the strings of length at most n, as sequences of characters
StringsUpTo(n) == UNION {[1..k -> Chars] : k \in 0..n}

\* the request bodies tried: niche absent, a number, or a string
Bodies ==
  {[kind |-> "missing", niche |-> <<>>], [kind |-> "number", niche |-> <<>>]}
    \cup [kind : {"string"}, niche : StringsUpTo(MaxLen)]

\* String.prototype.trim: leading and trailing white space removed
RECURSIVE trim(_)
trim(s) ==
  IF Len(s) = 0 THEN s
  ELSE IF Head(s) = " " THEN trim(Tail(s))
  ELSE IF s[Len(s)] = " " THEN trim(SubSeq(s, 1, Len(s) - 1))
  ELSE s

\* a check of the untrimmed length
validNicheUntrimmed(b) == b.kind = "string" /\ Len(b.niche) >= 3

\* !(!niche || typeof niche !== 'string' || niche.trim().length < 3)
validNiche(b) == b.kind = "string" /\ Len(b.niche) # 0 /\ Len(trim(b.niche)) >= 3

\* POST /start with body b: 400 for an invalid niche, else
\* startRun(niche.trim()) and 202 with the run identifier
postStart(b) ==
  /\ pc = "idle"
  /\ IF validNiche(b)
       THEN /\ startRunFor(trim(b.niche))
            /\ http' = [body |-> b, code |-> 202, runId |-> "r1"]
       ELSE /\ http' = [body |-> b, code |-> 400, runId |-> "none"]
            /\ UNCHANGED <<pc, activeRuns, events, streams, hist, node, merged, session,
                           space, reportStore, taskState, st, loc>>
  /\ UNCHANGED <<openaiKey, acontextKey, bdVars, srch, vfy>>

StartNext == \E b \in Bodies : postStart(b)

StartSpec == Init /\ [][StartNext]_vars

\* ------------------------------------------- searchRedditPainPoints
\* One call of searchRedditPainPoints(niche), one step per awaited
\* strategy call.  A search entry is {url, title}; url "" stands for a
\* missing url, "r1"/"r2" for Reddit post urls, "w" for another site.
SearchPosts == {[url |-> "r1", title |-> "a"], [url |-> "r1", title |-> "b"],
                [url |-> "r2", title |-> "a"], [url |-> "", title |-> "a"]}

WebPosts == {[url |-> "r1", title |-> "b"], [url |-> "w", title |-> "a"]}

\* the sequences of at most n elements of S
SeqsUpTo(S, n) == UNION {[1..k -> S] : k \in 0..n}

\* a reply of MinSignal entries over three urls
Bulk == [i \in 1..MinSignal |->
           [url |-> IF i % 3 = 0 THEN "r1" ELSE IF i % 3 = 1 THEN "r2" ELSE "r3",
            title |-> "bulk"]]

\* what a Reddit strategy (0, 1, 3) returns when it returns
StrategyReplies == SeqsUpTo(SearchPosts, MaxHits) \cup {Bulk}

\* what searchWeb returns when it returns
WebReplies == SeqsUpTo(WebPosts, MaxHits) \cup {Bulk}

\* how an awaited search call settles: it returns one of Replies or throws
Settled(Replies) == [o : {"ok"}, posts : Replies] \cup {[o |-> "throw", posts |-> <<>>]}

\* hits.filter((r) => r.url?.includes('reddit.com/r/'))
isRedditHit(r) == r.url \in {"r1", "r2", "r3"}
redditHits(hits) == SelectSeq(hits, isRedditHit)

\* the filter of a de-duplication that walks the entries from the end
RECURSIVE lastFrom(_, _)
lastFrom(xs, out) ==
  IF Len(xs) = 0 THEN out
  ELSE LET x == xs[Len(xs)]
           rest == SubSeq(xs, 1, Len(xs) - 1)
       IN IF x.url = "" \/ \E i \in 1..Len(out) : out[i].url = x.url
            THEN lastFrom(rest, out)
            ELSE lastFrom(rest, <<x>> \o out)

\* the filter callback applied to the entries in order: seen is the Set
\* of urls met so far, out the entries kept
RECURSIVE uniqueFrom(_, _, _)
uniqueFrom(xs, seen, out) ==
  IF Len(xs) = 0 THEN out
  ELSE LET x == Head(xs)
       IN IF x.url = "" \/ x.url \in seen
            THEN uniqueFrom(Tail(xs), seen, out)
            ELSE uniqueFrom(Tail(xs), seen \cup {x.url}, Append(out, x))

\* a de-duplication that keeps the last entry of each url
uniqueByUrlLast(xs) == lastFrom(xs, <<>>)

\* allResults.filter(({ url }) => { if (!url || seen.has(url)) return
\* false; seen.add(url); return true; })
uniqueByUrl(xs) == uniqueFrom(xs, {}, <<>>)

\* the specifications other than SearchSpec leave the search alone
notSearch == <<openaiKey, acontextKey, pc, node, merged, activeRuns, events, session,
               space, reportStore, taskState, st, loc, streams, bdVars, http, vfy,
               called, failed>>

\* entry: an empty or blank niche returns [] at once
searchStart(niche) ==
  /\ srch.pc = "idle"
  /\ IF Len(niche) = 0 \/ Len(trim(niche)) = 0
       THEN srch' = [srch EXCEPT !.pc = "done"]
       ELSE srch' = [srch EXCEPT !.pc = "s0"]
  /\ UNCHANGED notSearch

\* Strategy 0: searchRedditJSON (fetch of Reddit's public JSON API)
\* settles; its posts are pushed when there are any
strategy0 ==
  /\ srch.pc = "s0"
  /\ \E r \in Settled(StrategyReplies) :
       srch' = [srch EXCEPT !.all = @ \o r.posts, !.s0n = Len(r.posts), !.pc = "s1"]
  /\ UNCHANGED notSearch

\* Strategy 1: if (allResults.length < 10) searchRedditWithWebData
\* (Bright Data) is called and settles
strategy1 ==
  /\ srch.pc = "s1"
  /\ IF Len(srch.all) < MinSignal
       THEN \E r \in Settled(StrategyReplies) :
              srch' = [srch EXCEPT !.all = @ \o r.posts, !.bd = @ \cup {1}, !.pc = "s2"]
       ELSE srch' = [srch EXCEPT !.pc = "s2"]
  /\ UNCHANGED notSearch

\* Strategy 2: if (allResults.length < 10) the loops over the three
\* Google queries and the pages 0 and 1 are entered
strategy2 ==
  /\ srch.pc = "s2"
  /\ IF Len(srch.all) < MinSignal
       THEN srch' = [srch EXCEPT !.pc = "web", !.q = 1, !.page = 0]
       ELSE srch' = [srch EXCEPT !.pc = "s3"]
  /\ UNCHANGED notSearch

\* one searchWeb(query, 10, page) (Bright Data) settles.  A throw is
\* caught inside the page loop; page 0 without Reddit hits ends the query;
\* after a query, allResults.length >= 20 ends the strategy
searchWebStep ==
  /\ srch.pc = "web"
  /\ \E r \in Settled(WebReplies) :
       LET hits == redditHits(r.posts)
           all2 == srch.all \o hits
           queryEnds == srch.page = 1 \/ (r.o = "ok" /\ Len(hits) = 0)
           lastQuery == Len(all2) >= EnoughHits \/ srch.q = NumQueries
       IN srch' = [srch EXCEPT
                     !.all = all2,
                     !.bd = @ \cup {2},
                     !.page = IF queryEnds THEN 0 ELSE 1,
                     !.q = IF queryEnds /\ ~lastQuery THEN @ + 1 ELSE @,
                     !.pc = IF queryEnds /\ lastQuery THEN "s3" ELSE "web"]
  /\ UNCHANGED notSearch

\* Strategy 3: if (allResults.length < 10) searchRedditDirect (Bright
\* Data) is called and settles; then the de-duplication by url and return
strategy3 ==
  /\ srch.pc = "s3"
  /\ IF Len(srch.all) < MinSignal
       THEN \E r \in Settled(StrategyReplies) :
              LET all2 == srch.all \o r.posts
              IN srch' = [srch EXCEPT !.all = all2, !.bd = @ \cup {3},
                                      !.out = uniqueByUrl(all2), !.pc = "done"]
       ELSE srch' = [srch EXCEPT !.out = uniqueByUrl(srch.all), !.pc = "done"]
  /\ UNCHANGED notSearch

\* the niches tried: empty, blank, and a niche the route accepts
SearchNiches == {<<>>, <<" ", " ">>, SomeNiche}

SearchNext ==
  \/ \E niche \in SearchNiches : searchStart(niche)
  \/ strategy0
  \/ strategy1
  \/ strategy2
  \/ searchWebStep
  \/ strategy3

SearchSpec == Init /\ [][SearchNext]_vars

\* ------------------------------------------ verifyAllCompetitors
\* The competitor verification of validateNode: verifyAllCompetitors calls
\* checkCompetitorGap for each of COMPETITOR_TARGETS in turn, then
\* validateNode runs its fallback loop over the results.  Competitors are
\* named by their index in COMPETITOR_TARGETS.
notVerify == <<openaiKey, acontextKey, pc, node, merged, activeRuns, events, session,
               space, reportStore, taskState, st, loc, streams, bdVars, http, srch,
               called, failed>>

\* verifyAllCompetitors is called: the loop starts with the first target
verifyStart ==
  /\ vfy.pc = "idle"
  /\ vfy' = [vfy EXCEPT !.pc = "manual", !.i = 1]
  /\ UNCHANGED notVerify

\* how the manual lookup ends: searchActionManual and getActionManual
\* catch their own failures and return [] / null
ManualOutcomes == {"found", "searchFails", "noManual", "getFails"}

\* the manual lookup of checkCompetitorGap settles and the result object
\* is created with success false and notes ''
checkManual ==
  /\ vfy.pc = "manual"
  /\ \E m \in ManualOutcomes :
       vfy' = [vfy EXCEPT !.manual = (m = "found"),
                          !.cur = [success |-> FALSE, notes |-> "", how |-> "none"],
                          !.browser = FALSE,
                          !.pc = "browser"]
  /\ UNCHANGED notVerify

\* how the try block of checkCompetitorGap ends: puppeteer.launch throws;
\* the pricing page and its backup both fail to load; the pricing page
\* loads (directly or through the backup) and evaluate or screenshot
\* throws; the features page fails (caught by the inner try); all succeed
BrowseOutcomes == {"launchFails", "navigationFails", "pageFails", "backupLoaded",
                   "featuresFail", "checked"}

\* the try block and the catch block of checkCompetitorGap: when the try
\* block completes, success = true and notes = buildGapNotes(...) (never
\* empty); when it throws, the catch sets notes = 'Could not complete
\* verification: ...' and leaves success false
checkBrowser ==
  /\ vfy.pc = "browser"
  /\ \E b \in BrowseOutcomes :
       vfy' = [vfy EXCEPT
                 !.browser = (b # "launchFails"),
                 !.cur = [success |-> b \in {"backupLoaded", "featuresFail", "checked"},
                          notes |-> IF b \in {"backupLoaded", "featuresFail", "checked"}
                                      THEN "gap notes" ELSE "could not complete",
                          how |-> b],
                 !.pc = "finally"]
  /\ UNCHANGED notVerify

\* finally { if (browser) await browser.close(); } and return: the result
\* is pushed and the loop goes on; a close() that throws rejects
\* checkCompetitorGap and with it verifyAllCompetitors, and validateNode's
\* catch takes over with competitorResults still []
checkFinally ==
  /\ vfy.pc = "finally"
  /\ \E o \in (IF vfy.browser THEN CallOutcomes ELSE {"ok"}) :
       IF o = "ok"
         THEN LET rs == Append(vfy.results,
                          [name |-> vfy.i, manual |-> vfy.manual, success |-> vfy.cur.success,
                           notes |-> vfy.cur.notes, how |-> vfy.cur.how])
              IN IF vfy.i < NumCompetitors
                   THEN vfy' = [vfy EXCEPT !.results = rs, !.browser = FALSE,
                                           !.i = @ + 1, !.pc = "manual"]
                   ELSE vfy' = [vfy EXCEPT !.results = rs, !.browser = FALSE,
                                           !.ret = rs, !.pc = "fallback"]
         ELSE vfy' = [vfy EXCEPT !.pc = "caught"]
  /\ UNCHANGED notVerify

\* if (!result.success && !result.notes)
needsFallback(r) == ~r.success /\ r.notes = ""

\* the fallback loop of validateNode: scrapeCompetitorPage (which never
\* throws) for each result that needs it; then the results are handed to
\* analyseCompetitorData
fallbackLoop ==
  /\ vfy.pc = "fallback"
  /\ vfy' = [vfy EXCEPT
               !.scraped = {vfy.ret[k].name : k \in {j \in 1..Len(vfy.ret) : needsFallback(vfy.ret[j])}},
               !.pc = "interpret"]
  /\ UNCHANGED notVerify

VerifyNext ==
  \/ verifyStart
  \/ checkManual
  \/ checkBrowser
  \/ checkFinally
  \/ fallbackLoop

VerifySpec == Init /\ [][VerifyNext]_vars

\* ------------------------------------ the shared Bright Data MCP client
\* Two concurrent runs, each reduced to its use of brightDataService: the
\* Bright Data calls it makes (search, scrape) and the closeBrightData of
\* its finally block.
MaxCalls == 2         \* most Bright Data calls one run makes

\* everything but the MCP client
notBd == <<openaiKey, acontextKey, pc, node, merged, activeRuns, events, session,
           space, reportStore, taskState, st, loc, streams, aux, called, failed>>

\* getClient(): if (_client) return _client; else _client = new Client(...)
\* and await _client.connect(transport)
bdGetClient(r) ==
  /\ bdRun[r].pc = "idle"
  /\ bdRun[r].calls < MaxCalls
  /\ IF bdClient # 0
       THEN /\ bdRun' = [bdRun EXCEPT ![r].pc = "call", ![r].held = bdClient]
            /\ UNCHANGED <<bdClient, bdClients>>
       ELSE /\ bdClients' = Append(bdClients, "connecting")
            /\ bdClient' = Len(bdClients) + 1
            /\ bdRun' = [bdRun EXCEPT ![r].pc = "connect", ![r].held = Len(bdClients) + 1]
  /\ UNCHANGED notBd

\* _client.connect(transport) settles; when it throws the caller's
\* try/catch takes over and _client stays assigned
bdConnect(r) ==
  /\ bdRun[r].pc = "connect"
  /\ \E o \in CallOutcomes :
       IF o = "ok"
         THEN /\ bdClients' = [bdClients EXCEPT ![bdRun[r].held] =
                                 IF @ = "connecting" THEN "connected" ELSE @]
              /\ bdRun' = [bdRun EXCEPT ![r].pc = "call"]
         ELSE /\ bdClients' = [bdClients EXCEPT ![bdRun[r].held] =
                                 IF @ = "connecting" THEN "failed" ELSE @]
              /\ bdRun' = [bdRun EXCEPT ![r].pc = "idle", ![r].calls = @ + 1,
                                        ![r].last = "connect failed"]
  /\ UNCHANGED <<bdClient, notBd>>

\* client.callTool(...) settles: it needs a connected client
bdCall(r) ==
  /\ bdRun[r].pc = "call"
  /\ bdRun' = [bdRun EXCEPT ![r].pc = "idle", ![r].calls = @ + 1,
                            ![r].last = bdClients[bdRun[r].held]]
  /\ UNCHANGED <<bdClient, bdClients, notBd>>

\* the finally block of runGraph: closeBrightData() calls _client.close()
\* when _client is set
bdFinally(r) ==
  /\ bdRun[r].pc = "idle"
  /\ IF bdClient # 0
       THEN /\ bdClients' = [bdClients EXCEPT ![bdClient] = "closed"]
            /\ bdRun' = [bdRun EXCEPT ![r].pc = "closing"]
       ELSE /\ bdRun' = [bdRun EXCEPT ![r].pc = "ended"]
            /\ UNCHANGED bdClients
  /\ UNCHANGED <<bdClient, notBd>>

\* _client.close() settles: _client = null, unless close threw (the
\* rejection is swallowed by .catch(() => {}))
bdClosed(r) ==
  /\ bdRun[r].pc = "closing"
  /\ \E o \in CallOutcomes : bdClient' = IF o = "ok" THEN 0 ELSE bdClient
  /\ bdRun' = [bdRun EXCEPT ![r].pc = "ended"]
  /\ UNCHANGED <<bdClients, notBd>>

ClientNext ==
  \E r \in BdRuns :
    \/ bdGetClient(r)
    \/ bdConnect(r)
    \/ bdCall(r)
    \/ bdFinally(r)
    \/ bdClosed(r)

ClientSpec == Init /\ [][ClientNext]_vars

\* ------------------------------------------------------------ properties
EventIdx == 1..Len(events)

\* the phases of the phase_start events, in emission order
IsPhaseStart(e) == e.type = "phase_start"
PhaseStarts == SelectSeq(events, IsPhaseStart)

Emitted(type, phase) == \E i \in EventIdx : events[i].type = type /\ events[i].phase = phase
EmittedType(type) == \E i \in EventIdx : events[i].type = type

Status == IF Len(activeRuns) = 0 THEN "none" ELSE activeRuns[1].status

\* C1: the phase_start events of a run are a prefix of scout, brain,
\* validate, brief (each once, in that order); a phase has started only
\* when the update of the phase before it has been merged, so at most one
\* started phase is unmerged
C1_PhasesSequential ==
  /\ Len(PhaseStarts) <= Len(Phases)
  /\ \A i \in 1..Len(PhaseStarts) : PhaseStarts[i].phase = Phases[i]
  /\ \A i \in 2..Len(PhaseStarts) : Phases[i - 1] \in merged
  /\ Cardinality({p \in PhaseSet : Emitted("phase_start", p) /\ p \notin merged}) <= 1

C1_Witness ==
  /\ Len(PhaseStarts) = 4
  /\ "brief" \notin merged
  /\ merged = {"scout", "brain", "validate"}

\* C2: done is emitted at most once and nothing is emitted after it; a run
\* that has ended (success, degradation or fatal bootstrap) has emitted it
C2_DoneExactlyOnce ==
  /\ \A i \in EventIdx : events[i].type = "done" => i = Len(events)
  /\ pc = "ended" => EmittedType("done")

C2_Witness ==
  /\ pc = "ended"
  /\ Status = "error"
  /\ events[Len(events)].type = "done"

ErrorPhases == {st.errors[i].phase : i \in 1..Len(st.errors)}

\* C3: with every awaited call settling (weak fairness of the run's
\* steps), a started run eventually emits done and its RunRecord leaves
\* status running
C3_RunTerminates ==
  (Status = "running") ~> (EmittedType("done") /\ Status # "running")

\* full degradation: every phase recorded an error and the run still ended
C3_Witness ==
  /\ pc = "ended"
  /\ ErrorPhases = PhaseSet
  /\ EmittedType("done")
  /\ Status # "running"

\* the awaited calls each node makes on its failure-free path
PhaseCalls(p) ==
  CASE p = "scout"    -> {"scout.searchRedditPainPoints", "scout.scrapeRedditPosts",
                          "scout.cleanAndFilterPosts", "scout.storeMessage"}
    [] p = "brain"    -> {"brain.extractPainPoints", "brain.storeMessage1",
                          "brain.writeReport1", "brain.rankAndSelectProblem",
                          "brain.storeMessage2", "brain.writeReport2"}
    [] p = "validate" -> {"validate.verifyAllCompetitors", "validate.analyseCompetitorData",
                          "validate.storeMessage", "validate.writeReport"}
    [] p = "brief"    -> {"brief.generateOpportunityBrief", "brief.flushAndSummarise",
                          "brief.writeReport", "brief.storeMessage"}

PhaseFailed(p) == PhaseCalls(p) \cap failed # {}

LocErrorPhases == {loc.errors[i].phase : i \in 1..Len(loc.errors)}

\* C4 (as claimed): every phase_start of a phase is followed by the
\* phase_complete of that phase before the next phase_start and before done
C4_PhaseCompleteAlways ==
  \A i \in EventIdx :
    events[i].type = "phase_start" =>
      \A j \in (i + 1)..Len(events) :
        events[j].type \in {"phase_start", "done"} =>
          \E k \in (i + 1)..(j - 1) :
            events[k].type = "phase_complete" /\ events[k].phase = events[i].phase

C6_CallsWrappedIndividually ==
  \A p \in merged : PhaseCalls(p) \subseteq called

\* C7: once the four phases have run, the status is complete exactly when
\* the accumulated errors are empty and complete_with_warnings otherwise,
\* and done carries the number of accumulated errors
C7_FinalStatus ==
  (merged = PhaseSet /\ pc \in {"close", "ended"}) =>
    /\ Status = "complete" <=> Len(st.errors) = 0
    /\ Status = "complete_with_warnings" <=> Len(st.errors) > 0
    /\ events[Len(events)].type = "done"
    /\ events[Len(events)].n = Len(st.errors)

C7_Witness ==
  /\ pc = "ended"
  /\ merged = PhaseSet
  /\ Len(st.errors) = 2
  /\ Status = "complete_with_warnings"

\* C8: every step leaves the accumulated errors a prefix of their new
\* value, and a merge step appends exactly the errors the node returned
C8_ErrorsOnlyGrow ==
  [][/\ Len(st'.errors) >= Len(st.errors)
     /\ SubSeq(st'.errors, 1, Len(st.errors)) = st.errors
     /\ pc = "merge" => st'.errors = st.errors \o loc.errors]_vars

\* a merge has appended a phase's error to an earlier phase's error
C8_Witness ==
  /\ Len(st.errors) >= 2
  /\ st.errors[1].phase = "scout"
  /\ st.errors[2].phase = "brain"

PhaseLevelTypes == {"phase_start", "phase_warning", "phase_complete"}
NoPhaseEvents == \A i \in EventIdx : events[i].type \notin PhaseLevelTypes

BootstrapFailed == {"createSession", "initialWrite"} \cap failed # {}

C10_SetupFailureNonFatal ==
  (pc = "ended" /\ {"createSession", "createLearningSpace"} \cap failed # {}) =>
    /\ Status # "error"
    /\ Len(PhaseStarts) = Len(Phases)

\* C10 (amended): a failed learning-space setup leaves the space absent,
\* session_created is still emitted, only a failed initial report write
\* then makes the run fatal, and otherwise the four phases run and the run
\* does not end in status error; a failed session creation is run-fatal
C10_SpaceFailureNonFatal ==
  /\ "createLearningSpace" \in failed =>
       /\ space = "none"
       /\ EmittedType("session_created")
       /\ Status = "error" => "initialWrite" \in failed
       /\ (pc = "ended" /\ "initialWrite" \notin failed) =>
            /\ Len(PhaseStarts) = Len(Phases)
            /\ Status \in {"complete", "complete_with_warnings"}
  /\ "createSession" \in failed => Status = "error" /\ NoPhaseEvents

C10_Witness ==
  /\ pc = "ended"
  /\ "createLearningSpace" \in failed
  /\ space = "none"
  /\ Status = "complete"

\* C11 (as claimed): after a run-fatal error a report that was written is
\* what GET /report returns
C11_PartialReportRetrievable ==
  (pc = "ended" /\ Status = "error" /\ reportStore.exists) =>
    /\ getReport.code = 200
    /\ getReport.report = reportStore

IsReportReady(e) == e.type = "report_ready"
ReportReadys == SelectSeq(events, IsReportReady)

\* C12: the report carried by report_ready is a stored report, and from the
\* emission on, in every later state of the run, the report read from the
\* store (readReport, and GET /report once the run has finished) is
\* identical to it: nothing writes the report after report_ready
C12_ReportReadyMatchesStore ==
  \A i \in 1..Len(ReportReadys) :
    /\ ReportReadys[i].report.exists
    /\ readReport(session) = ReportReadys[i].report
    /\ pc = "ended" => getReport = [code |-> 200, report |-> ReportReadys[i].report]

C12_Witness ==
  /\ pc = "ended"
  /\ Len(ReportReadys) = 1
  /\ Len(st.errors) > 0

\* C13: at most one report_ready is emitted and none after done; a run in
\* which no awaited call failed ends with no accumulated error, status
\* complete and exactly one report_ready, emitted before done
C13_CleanRun ==
  /\ Len(ReportReadys) <= 1
  /\ \A i, j \in EventIdx :
       (events[i].type = "done" /\ events[j].type = "report_ready") => j < i
  /\ (pc = "ended" /\ failed = {}) =>
       /\ st.errors = <<>>
       /\ Status = "complete"
       /\ Len(ReportReadys) = 1
       /\ events[Len(events)].type = "done"

C13_Witness ==
  /\ pc = "ended"
  /\ failed = {}
  /\ st.searchResults > 0
  /\ Len(ReportReadys) = 1

\* C14 (as claimed): when the search returns no result and no call fails,
\* Scout ends with no search results and no raw documents, an error of
\* Scout is accumulated and the run ends complete_with_warnings
C14_ZeroResultsWarn ==
  (pc = "ended" /\ merged = PhaseSet /\ st.searchResults = 0 /\ failed = {}) =>
    /\ st.rawPosts = 0
    /\ "scout" \in ErrorPhases
    /\ Status = "complete_with_warnings"

TerminalStatuses == {"complete", "complete_with_warnings", "error"}

\* C20: the RunRecord is created with status running, is never removed,
\* keeps its niche, start timestamp and emitter, and its status changes
\* only from running to a terminal status
C20_RunRecordLifecycle ==
  [][/\ (Len(activeRuns) = 0 /\ Len(activeRuns') # 0) =>
          Len(activeRuns') = 1 /\ activeRuns'[1].status = "running"
     /\ Len(activeRuns) = 1 =>
          /\ Len(activeRuns') = 1
          /\ activeRuns'[1].niche = activeRuns[1].niche
          /\ activeRuns'[1].startedAt = activeRuns[1].startedAt
          /\ activeRuns'[1].emitter = activeRuns[1].emitter
          /\ activeRuns'[1].status # activeRuns[1].status =>
               /\ activeRuns[1].status = "running"
               /\ activeRuns'[1].status \in TerminalStatuses]_vars

C20_Witness ==
  /\ pc = "ended"
  /\ Status = "complete_with_warnings"
  /\ activeRuns[1].niche = SomeNiche

Dones(q) == Cardinality({i \in 1..Len(q) : q[i].type = "done"})

\* C15 (as claimed): a consumer whose connection the server has ended has
\* been sent exactly one done
C15_OpenConsumerGetsDone ==
  \A c \in Consumers : streams[c].conn = "ended" => Dones(streams[c].recv) = 1

\* what a consumer of a finished run is to be sent
FinishedReply ==
  (IF reportStore.exists THEN emitReport(reportStore) ELSE <<>>) \o emit("done", "", "", 0)

\* C16 (as claimed): a consumer that connected when the run had a terminal
\* status has been sent the stored report, if there is one, and done, its
\* connection is ended and its handler detached
C16_LateConsumerServed ==
  \A c \in Consumers :
    streams[c].statusAt \in TerminalStatuses =>
      /\ streams[c].recv = FinishedReply
      /\ streams[c].conn = "ended"
      /\ ~streams[c].attached

C18_ListenerGetsEveryEvent ==
  \A c \in Consumers :
    LET s == streams[c] IN
    (s.conn # "idle" /\ s.statusAt \notin {"complete", "error"}) =>
      /\ s.at + Len(s.recv) <= Len(events)
      /\ s.recv = SubSeq(events, s.at + 1, s.at + Len(s.recv))
      /\ s.attached => s.at + Len(s.recv) = Len(events)
      /\ s.conn = "ended" =>
           /\ Len(s.recv) > 0
           /\ s.recv[Len(s.recv)].type \in {"done", "error"}
           /\ \A i \in 1..(Len(s.recv) - 1) : s.recv[i].type \notin {"done", "error"}

C18_Witness ==
  \E c \in Consumers :
    /\ streams[c].conn = "ended"
    /\ streams[c].at > 2
    /\ Len(streams[c].recv) > 4
    /\ streams[c].recv[Len(streams[c].recv)].type = "done"

\* C19 (as claimed): a run that is in a Bright Data call never holds a
\* client that was closed (a run closes the client only after its own last
\* call, so the client was closed by the other run's closeBrightData)
C19_RunsIndependent ==
  \A r \in BdRuns : bdRun[r].pc = "call" => bdClients[bdRun[r].held] # "closed"

\* C26 (as claimed): in a run whose phases all ran, a Reasoning Provider
\* call that threw leaves its phase's field at the fallback value (the
\* empty list for extraction, a low-confidence verdict for gap analysis, a
\* degraded brief for Brief), extraction never leaves a non-list, and the
\* run does not end in status error
C26_LlmFallbackDefined ==
  (pc = "ended" /\ ~BootstrapFailed) =>
    /\ Status # "error"
    /\ st.painPoints.kind = "list"
    /\ "brain.extractPainPoints" \in failed => st.painPoints = EmptyList
    /\ "validate.analyseCompetitorData" \in failed => st.gapAnalysis \in {"failed", "inconclusive"}
    /\ "brief.generateOpportunityBrief" \in failed => st.opportunityBrief = "degraded"

\* C29 (as claimed): once done has been emitted, a stored report does not
\* say running and says complete only when the RunRecord's status is
\* complete (no accumulated errors)
C29_ReportStatusAgrees ==
  (EmittedType("done") /\ reportStore.exists) =>
    /\ reportStore.status # "running"
    /\ reportStore.status = "complete" => (Status = "complete" /\ Len(st.errors) = 0)

\* C30 (as claimed): a run that getClient has handed a client to holds a
\* client whose connect completed successfully (never one that is still
\* connecting or whose connect failed)
C30_ClientConnected ==
  \A r \in BdRuns :
    bdRun[r].pc = "call" => bdClients[bdRun[r].held] \notin {"connecting", "failed"}

\* C28 (as claimed): every done event was emitted while the RunRecord
\* held a terminal status
C28_DoneAfterTerminalStatus ==
  \A i \in EventIdx : events[i].type = "done" => events[i].reg \in TerminalStatuses

\* C27: run_start is the first event of a registered run, emitted in the
\* step that registers it (before startRun returns the run identifier),
\* and no consumer of the stream endpoint has been sent a run_start
C27_RunStartNotStreamed ==
  /\ Len(activeRuns) # 0 => (Len(events) > 0 /\ events[1].type = "run_start")
  /\ \A c \in Consumers : \A i \in 1..Len(streams[c].recv) :
       streams[c].recv[i].type # "run_start"

\* a consumer that attached right after startRun returned, before any
\* other event, and followed the run to its done
C27_Witness ==
  \E c \in Consumers :
    /\ streams[c].at = 1
    /\ streams[c].statusAt = "running"
    /\ streams[c].conn = "ended"
    /\ Len(streams[c].recv) = Len(events) - 1
    /\ streams[c].recv[Len(streams[c].recv)].type = "done"

\* C22: a start request whose niche is missing, not a string or shorter
\* than 3 characters once trimmed is answered 400 with no run identifier
\* and leaves the registry and the event log as they were (empty); any
\* other request is answered 202 with a run identifier, and the registry
\* holds a RunRecord in status running for the trimmed niche
C22_StartValidation ==
  LET b == http.body
      short == b.kind # "string" \/ Len(trim(b.niche)) < 3
  IN b.kind # "none" =>
       IF short
         THEN /\ http.code = 400 /\ http.runId = "none"
              /\ Len(activeRuns) = 0 /\ Len(events) = 0 /\ pc = "idle"
         ELSE /\ http.code = 202 /\ http.runId # "none"
              /\ Len(activeRuns) = 1
              /\ activeRuns[1].status = "running"
              /\ activeRuns[1].niche = trim(b.niche)
              /\ Len(activeRuns[1].niche) >= 3

\* a padded niche of trimmed length 3 was accepted and registered trimmed
C22_Witness ==
  /\ http.body.kind = "string"
  /\ http.body.niche = <<" ", "a", "a", "a">>
  /\ http.code = 202
  /\ Len(activeRuns) = 1
  /\ activeRuns[1].niche = <<"a", "a", "a">>

\* the positions of xs that hold the first entry of their url
FirstIdx(xs) ==
  {i \in 1..Len(xs) : xs[i].url # "" /\ \A j \in 1..(i - 1) : xs[j].url # xs[i].url}

\* the k-th smallest element of a set of numbers
Nth(S, k) == CHOOSE i \in S : Cardinality({j \in S : j < i}) = k - 1

\* C21: what searchRedditPainPoints returns (the searchResults Scout puts
\* into RunState) holds no url twice, is made of the first entry of each
\* url among the results of all strategies, in their order, and is left
\* unchanged by the same de-duplication applied again
C21_UniqueUrls ==
  srch.pc = "done" =>
    /\ \A i, j \in 1..Len(srch.out) : srch.out[i].url = srch.out[j].url => i = j
    /\ Len(srch.out) = Cardinality(FirstIdx(srch.all))
    /\ \A k \in 1..Len(srch.out) : srch.out[k] = srch.all[Nth(FirstIdx(srch.all), k)]
    /\ uniqueByUrl(srch.out) = srch.out

\* two strategies returned entries with the same url and different titles
\* and a third returned another url: the first title was kept
C21_Witness ==
  /\ srch.pc = "done"
  /\ \E i, j \in 1..Len(srch.all) :
       /\ i < j
       /\ srch.all[i].url = "r1" /\ srch.all[j].url = "r1"
       /\ srch.all[i].title = "a" /\ srch.all[j].title = "b"
  /\ Len(srch.out) = 2
  /\ srch.out[1] = [url |-> "r1", title |-> "a"]
  /\ Len(srch.all) > 2

\* C25 (as claimed): a search whose Strategy 0 returned at least one post
\* has called none of the Bright Data strategies
C25_BrightDataSkipped ==
  (srch.pc = "done" /\ srch.s0n > 0) => srch.bd = {}

\* C23 (as claimed): when the results are interpreted, every competitor
\* whose check failed (success false) has been scraped by the fallback
C23_FallbackForFailedChecks ==
  vfy.pc = "interpret" =>
    \A k \in 1..Len(vfy.ret) : ~vfy.ret[k].success => vfy.ret[k].name \in vfy.scraped

\* C24 (as claimed): once the verification is over, validateNode holds
\* one result per target, in target order, and every failed check has
\* success false with a non-empty note
C24_OneResultPerCompetitor ==
  vfy.pc \in {"fallback", "interpret", "caught"} =>
    /\ Len(vfy.ret) = NumCompetitors
    /\ \A k \in 1..Len(vfy.ret) :
         /\ vfy.ret[k].name = k
         /\ vfy.ret[k].how \in {"launchFails", "navigationFails", "pageFails"} =>
              (~vfy.ret[k].success /\ vfy.ret[k].notes # "")

====
